---- MODULE Spec2Model ----
(***************************************************************************)
(* Consistency model of the assignment tracker: the Class of               *)
(* tracker/core/src/class.rs and the Tracker of                            *)
(* tracker/core/src/tracker.rs.                                            *)
(*                                                                         *)
(* Weights (f64 percentages in the source) are modelled as whole           *)
(* percentages; Option<T> is modelled as a sequence of length 0 or 1.      *)
(***************************************************************************)
EXTENDS Integers, Sequences, FiniteSets, TLC

\* ---------------------------------------------------------------- bounds
\* assignment ids are 1..MaxId; a tracker receives at most MaxCalls calls
MaxId == 2
MaxCalls == 4

\* ------------------------------------------------------- input universes
Ids == 1..MaxId
\* two assignment names and two class codes: every rule of the tracker
\* relates at most two assignments and at most two classes
Names == {"Test 1", "Test 2"}
Codes == {"CLASS A", "CLASS B"}
\* weights given to Assignment::new by the tests of class.rs
Values == {0, 40, 60, 100}
\* weights given to with_value by the callers of Tracker::add_assignment
TrackerValues == {40, 60, 100}

None == <<>>
Some(x) == <<x>>

\* the total value a class may not exceed (class.rs: `if total > 100.0`)
MaxTotal == 100

\* ------------------------------------------------------------ variables
VARIABLES class, classLast, tracker, trackerLast, calls, markLast, assignment,
          assignmentLast, inner, innerLast, list, listLast, convLast

classVars == <<class, classLast>>
trackerVars == <<tracker, trackerLast, calls>>
markVars == <<markLast>>
assignmentVars == <<assignment, assignmentLast>>
innerVars == <<inner, innerLast>>
listVars == <<list, listLast>>
convVars == <<convLast>>
vars == <<class, classLast, tracker, trackerLast, calls, markLast, assignment,
         assignmentLast, inner, innerLast, list, listLast, convLast>>

NoCall == [op |-> "none", code |-> <<>>, assign |-> <<>>, id |-> <<>>,
           result |-> "Ok", returned |-> <<>>, before |-> <<>>]

\* ===================================================== class.rs : Class
\* Assignment::new(id, name, value) as class.rs uses it: value is a plain f64
ClassAssignments == [id : Ids, name : Names, value : Values]

\* Class::new: empty assignment map, total_value 0.0
Class_new == [assignments |-> <<>>, total_value |-> 0]

\* the crate's bound on a name, in bytes
MAX_NAME_LEN == 32

\* ids and short names handed to Class::new; the names are those of tests::new
ClassIds == 0..MaxId
ShortNames ==
    {"", "NAME", "LONGER NAME", "super long name which doesn't really make sense"}

\* mutant: the empty short name is let through
Class_new_checked_AllowEmpty(id, short_name) ==
    IF Len(short_name) > MAX_NAME_LEN
    THEN [class |-> None, result |-> "Err"]
    ELSE [class |-> Some(Class_new), result |-> "Ok"]

\* Class::new(id, short_name) -> Result<Self>, with its two early returns
Class_new_checked(id, short_name) ==
    IF short_name = ""
    THEN [class |-> None, result |-> "Err"]
    ELSE IF Len(short_name) > MAX_NAME_LEN
    THEN [class |-> None, result |-> "Err"]
    ELSE [class |-> Some(Class_new), result |-> "Ok"]

\* sum of the weights of the assignments of a HashMap<u64, Assignment>
RECURSIVE SumValues(_)
SumValues(m) ==
    IF DOMAIN m = {} THEN 0
    ELSE LET k == CHOOSE x \in DOMAIN m : TRUE
         IN m[k].value + SumValues([j \in DOMAIN m \ {k} |-> m[j]])

\* mutant: the bound is checked on the new assignment alone
Class_add_assignment_NoSum(c, assign) ==
    LET total == c.total_value + assign.value IN
    IF assign.value > MaxTotal
    THEN [class |-> c, result |-> "TotalValue"]
    ELSE IF \E id \in DOMAIN c.assignments : id = assign.id
    THEN [class |-> c, result |-> "IdExists"]
    ELSE IF \E id \in DOMAIN c.assignments : c.assignments[id].name = assign.name
    THEN [class |-> c, result |-> "NameExists"]
    ELSE [class |-> [assignments |-> (assign.id :> assign) @@ c.assignments,
                     total_value |-> total],
          result |-> "Ok"]

\* mutant: the running total is committed before the identity checks
Class_add_assignment_EarlyCommit(c, assign) ==
    LET total == c.total_value + assign.value
        c2 == [c EXCEPT !.total_value = total] IN
    IF total > MaxTotal
    THEN [class |-> c, result |-> "TotalValue"]
    ELSE IF \E id \in DOMAIN c.assignments : id = assign.id
    THEN [class |-> c2, result |-> "IdExists"]
    ELSE IF \E id \in DOMAIN c.assignments : c.assignments[id].name = assign.name
    THEN [class |-> c2, result |-> "NameExists"]
    ELSE [class |-> [assignments |-> (assign.id :> assign) @@ c.assignments,
                     total_value |-> total],
          result |-> "Ok"]

\* mutant: identity checks run before the value bound
Class_add_assignment_IdFirst(c, assign) ==
    LET total == c.total_value + assign.value IN
    IF \E id \in DOMAIN c.assignments : id = assign.id
    THEN [class |-> c, result |-> "IdExists"]
    ELSE IF \E id \in DOMAIN c.assignments : c.assignments[id].name = assign.name
    THEN [class |-> c, result |-> "NameExists"]
    ELSE IF total > MaxTotal
    THEN [class |-> c, result |-> "TotalValue"]
    ELSE [class |-> [assignments |-> (assign.id :> assign) @@ c.assignments,
                     total_value |-> total],
          result |-> "Ok"]

\* Class::add_assignment
Class_add_assignment(c, assign) ==
    LET total == c.total_value + assign.value IN
    IF total > MaxTotal
    THEN [class |-> c, result |-> "TotalValue"]
    ELSE IF \E id \in DOMAIN c.assignments : id = assign.id
    THEN [class |-> c, result |-> "IdExists"]
    ELSE IF \E id \in DOMAIN c.assignments : c.assignments[id].name = assign.name
    THEN [class |-> c, result |-> "NameExists"]
    ELSE [class |-> [assignments |-> (assign.id :> assign) @@ c.assignments,
                     total_value |-> total],
          result |-> "Ok"]

\* Class::remove_assignment: HashMap::remove, total_value is not touched
Class_remove_assignment(c, id) ==
    IF id \in DOMAIN c.assignments
    THEN [class |-> [c EXCEPT !.assignments =
                        [j \in DOMAIN c.assignments \ {id} |-> c.assignments[j]]],
          result |-> "Ok",
          returned |-> Some(c.assignments[id])]
    ELSE [class |-> c, result |-> "NotFound", returned |-> None]

\* Class::total_value
Class_total_value(c) == c.total_value

\* classLast: the last call made on the class, its result and what it returned
ClassInit ==
    /\ class = Class_new
    /\ classLast = NoCall

ClassAddAssignment ==
    \E assign \in ClassAssignments :
        LET r == Class_add_assignment(class, assign) IN
        /\ class' = r.class
        /\ classLast' = [op |-> "add_assignment", code |-> None,
                         assign |-> Some(assign), id |-> None,
                         result |-> r.result, returned |-> None, before |-> None]

ClassRemoveAssignment ==
    \E id \in Ids :
        LET r == Class_remove_assignment(class, id) IN
        /\ class' = r.class
        /\ classLast' = [op |-> "remove_assignment", code |-> None, assign |-> None,
                         id |-> Some(id), result |-> r.result,
                         returned |-> r.returned, before |-> None]

\* Class::new called again: Ok replaces the class at hand, Err builds nothing.
\* classLast.code holds the short name given.
ClassNew ==
    \E id \in ClassIds, short_name \in ShortNames :
        LET r == Class_new_checked(id, short_name) IN
        /\ class' = IF r.result = "Ok" THEN r.class[1] ELSE class
        /\ classLast' = [op |-> "new", code |-> Some(short_name), assign |-> None,
                         id |-> Some(id), result |-> r.result,
                         returned |-> r.class, before |-> None]

\* =================================================== tracker.rs : Tracker
\* Assignment::new(id, name) optionally followed by with_value(v):
\* value is Option<f64>
Assignments == [id : Ids, name : Names, value : {None} \cup {Some(v) : v \in TrackerValues}]

\* Option::unwrap_or
unwrap_or(o, d) == IF o = None THEN d ELSE o[1]

\* Code::new(code): a class with nothing added to it yet
Code_new(code) == [code |-> code, total_value |-> 0]

\* Classlike::add_total_value: the running total of a class, bounded by 100
add_total_value(c, value) ==
    LET total == c.total_value + value IN
    IF total > MaxTotal
    THEN [class |-> c, result |-> "TotalValue"]
    ELSE [class |-> [c EXCEPT !.total_value = total], result |-> "Ok"]

\* Tracker::new: no classes, no assignments, empty index
Tracker_new == [classes |-> <<>>, assignments |-> <<>>, map |-> <<>>]

\* Vec::remove(index)
RemoveAt(s, index) == [j \in 1..(Len(s) - 1) |-> IF j < index THEN s[j] ELSE s[j + 1]]

\* Iterator::position: index of the first element satisfying the test, 0 for None
PositionOfCode(classes, code) ==
    IF \E i \in 1..Len(classes) : classes[i].code = code
    THEN CHOOSE i \in 1..Len(classes) :
            /\ classes[i].code = code
            /\ \A j \in 1..(i - 1) : classes[j].code # code
    ELSE 0

PositionOfId(assignments, id) ==
    IF \E i \in 1..Len(assignments) : assignments[i].id = id
    THEN CHOOSE i \in 1..Len(assignments) :
            /\ assignments[i].id = id
            /\ \A j \in 1..(i - 1) : assignments[j].id # id
    ELSE 0

\* Trackerlike::get_assignment: the first assignment of the list with that id
get_assignment(t, id) ==
    LET i == PositionOfId(t.assignments, id) IN
    IF i = 0 THEN None ELSE Some(t.assignments[i])

\* Trackerlike::get_class
get_class(t, code) ==
    LET i == PositionOfCode(t.classes, code) IN
    IF i = 0 THEN None ELSE Some(t.classes[i])

\* mutant: every indexed assignment is returned, whatever its class
assignments_from_class_AnyClass(t, code) ==
    LET ids == DOMAIN t.map IN
    SelectSeq(t.assignments, LAMBDA a : a.id \in ids)

\* Tracker::assignments_from_class: the assignments whose id the index maps to code
assignments_from_class(t, code) ==
    LET ids == {id \in DOMAIN t.map : t.map[id] = code} IN
    SelectSeq(t.assignments, LAMBDA a : a.id \in ids)

\* Tracker::add_class
Tracker_add_class(t, c) ==
    IF \E i \in 1..Len(t.classes) : t.classes[i].code = c.code
    THEN [tracker |-> t, result |-> "ClassCodeTaken"]
    ELSE [tracker |-> [t EXCEPT !.classes = Append(t.classes, c)], result |-> "Ok"]

\* mutant: the class is removed and its index entries are kept
Tracker_remove_class_KeepIndex(t, code) ==
    LET index == PositionOfCode(t.classes, code) IN
    IF index = 0
    THEN [tracker |-> t, result |-> "ClassCodeTaken", returned |-> None]
    ELSE [tracker |-> [t EXCEPT !.classes = RemoveAt(t.classes, index)],
          result |-> "Ok",
          returned |-> Some(t.classes[index])]

\* Tracker::remove_class
Tracker_remove_class(t, code) ==
    LET index == PositionOfCode(t.classes, code) IN
    IF index = 0
    THEN [tracker |-> t, result |-> "ClassCodeTaken", returned |-> None]
    ELSE LET ids == {id \in DOMAIN t.map : t.map[id] = code} IN
         [tracker |-> [t EXCEPT !.map = [id \in DOMAIN t.map \ ids |-> t.map[id]],
                                !.classes = RemoveAt(t.classes, index)],
          result |-> "Ok",
          returned |-> Some(t.classes[index])]

\* the name test of Tracker::add_assignment: an assignment of that name whose
\* index entry is code
NameTakenInClass(t, code, name) ==
    \E i \in 1..Len(t.assignments) :
        /\ t.assignments[i].name = name
        /\ t.assignments[i].id \in DOMAIN t.map
        /\ t.map[t.assignments[i].id] = code

\* mutant: the id test only looks at the assignments indexed to the same class
Tracker_add_assignment_IdPerClass(t, code, assign) ==
    IF \E i \in 1..Len(t.assignments) :
           /\ t.assignments[i].id = assign.id
           /\ assign.id \in DOMAIN t.map
           /\ t.map[assign.id] = code
    THEN [tracker |-> t, result |-> "AssignmentIdTaken"]
    ELSE IF NameTakenInClass(t, code, assign.name)
    THEN [tracker |-> t, result |-> "AssignmentNameNotUnique"]
    ELSE LET index == PositionOfCode(t.classes, code) IN
         IF index = 0
         THEN [tracker |-> t, result |-> "ClassCodeNone"]
         ELSE LET r == add_total_value(t.classes[index], unwrap_or(assign.value, 0)) IN
              IF r.result # "Ok"
              THEN [tracker |-> t, result |-> r.result]
              ELSE [tracker |-> [classes |-> [t.classes EXCEPT ![index] = r.class],
                                 map |-> (assign.id :> code) @@ t.map,
                                 assignments |-> Append(t.assignments, assign)],
                    result |-> "Ok"]

\* mutant: the index entry is written before the class is looked up
Tracker_add_assignment_EarlyIndex(t, code, assign) ==
    IF \E i \in 1..Len(t.assignments) : t.assignments[i].id = assign.id
    THEN [tracker |-> t, result |-> "AssignmentIdTaken"]
    ELSE IF NameTakenInClass(t, code, assign.name)
    THEN [tracker |-> t, result |-> "AssignmentNameNotUnique"]
    ELSE LET index == PositionOfCode(t.classes, code)
             t2 == [t EXCEPT !.map = (assign.id :> code) @@ t.map] IN
         IF index = 0
         THEN [tracker |-> t2, result |-> "ClassCodeNone"]
         ELSE LET r == add_total_value(t.classes[index], unwrap_or(assign.value, 0)) IN
              IF r.result # "Ok"
              THEN [tracker |-> t2, result |-> r.result]
              ELSE [tracker |-> [classes |-> [t.classes EXCEPT ![index] = r.class],
                                 map |-> (assign.id :> code) @@ t.map,
                                 assignments |-> Append(t.assignments, assign)],
                    result |-> "Ok"]

\* mutant: the name test runs before the id test
Tracker_add_assignment_NameFirst(t, code, assign) ==
    IF NameTakenInClass(t, code, assign.name)
    THEN [tracker |-> t, result |-> "AssignmentNameNotUnique"]
    ELSE IF \E i \in 1..Len(t.assignments) : t.assignments[i].id = assign.id
    THEN [tracker |-> t, result |-> "AssignmentIdTaken"]
    ELSE LET index == PositionOfCode(t.classes, code) IN
         IF index = 0
         THEN [tracker |-> t, result |-> "ClassCodeNone"]
         ELSE LET r == add_total_value(t.classes[index], unwrap_or(assign.value, 0)) IN
              IF r.result # "Ok"
              THEN [tracker |-> t, result |-> r.result]
              ELSE [tracker |-> [classes |-> [t.classes EXCEPT ![index] = r.class],
                                 map |-> (assign.id :> code) @@ t.map,
                                 assignments |-> Append(t.assignments, assign)],
                    result |-> "Ok"]

\* mutant: the name test ignores the class the other assignment is indexed to
Tracker_add_assignment_NameGlobal(t, code, assign) ==
    IF \E i \in 1..Len(t.assignments) : t.assignments[i].id = assign.id
    THEN [tracker |-> t, result |-> "AssignmentIdTaken"]
    ELSE IF \E i \in 1..Len(t.assignments) : t.assignments[i].name = assign.name
    THEN [tracker |-> t, result |-> "AssignmentNameNotUnique"]
    ELSE LET index == PositionOfCode(t.classes, code) IN
         IF index = 0
         THEN [tracker |-> t, result |-> "ClassCodeNone"]
         ELSE LET r == add_total_value(t.classes[index], unwrap_or(assign.value, 0)) IN
              IF r.result # "Ok"
              THEN [tracker |-> t, result |-> r.result]
              ELSE [tracker |-> [classes |-> [t.classes EXCEPT ![index] = r.class],
                                 map |-> (assign.id :> code) @@ t.map,
                                 assignments |-> Append(t.assignments, assign)],
                    result |-> "Ok"]

\* Tracker::add_assignment
Tracker_add_assignment(t, code, assign) ==
    IF \E i \in 1..Len(t.assignments) : t.assignments[i].id = assign.id
    THEN [tracker |-> t, result |-> "AssignmentIdTaken"]
    ELSE IF NameTakenInClass(t, code, assign.name)
    THEN [tracker |-> t, result |-> "AssignmentNameNotUnique"]
    ELSE LET index == PositionOfCode(t.classes, code) IN
         IF index = 0
         THEN [tracker |-> t, result |-> "ClassCodeNone"]
         ELSE LET r == add_total_value(t.classes[index], unwrap_or(assign.value, 0)) IN
              IF r.result # "Ok"
              THEN [tracker |-> t, result |-> r.result]
              ELSE [tracker |-> [classes |-> [t.classes EXCEPT ![index] = r.class],
                                 map |-> (assign.id :> code) @@ t.map,
                                 assignments |-> Append(t.assignments, assign)],
                    result |-> "Ok"]

\* Tracker::remove_assignment: the classes are not touched
Tracker_remove_assignment(t, assign_id) ==
    LET index == PositionOfId(t.assignments, assign_id) IN
    IF index = 0
    THEN [tracker |-> t, result |-> "AssignmentIdNone", returned |-> None]
    ELSE [tracker |-> [t EXCEPT !.map = [id \in DOMAIN t.map \ {assign_id} |-> t.map[id]],
                                !.assignments = RemoveAt(t.assignments, index)],
          result |-> "Ok",
          returned |-> Some(t.assignments[index])]

\* trackerLast: the last call made on the tracker, its result, what it
\* returned, and for a successful add_assignment the class as it was before
TrackerInit ==
    /\ tracker = Tracker_new
    /\ trackerLast = NoCall
    /\ calls = 0

TrackerAddClass ==
    \E code \in Codes :
        LET r == Tracker_add_class(tracker, Code_new(code)) IN
        /\ calls < MaxCalls
        /\ calls' = calls + 1
        /\ tracker' = r.tracker
        /\ trackerLast' = [op |-> "add_class", code |-> Some(code), assign |-> None,
                           id |-> None, result |-> r.result, returned |-> None,
                           before |-> None]

TrackerRemoveClass ==
    \E code \in Codes :
        LET r == Tracker_remove_class(tracker, code) IN
        /\ calls < MaxCalls
        /\ calls' = calls + 1
        /\ tracker' = r.tracker
        /\ trackerLast' = [op |-> "remove_class", code |-> Some(code), assign |-> None,
                           id |-> None, result |-> r.result, returned |-> r.returned,
                           before |-> None]

TrackerAddAssignment ==
    \E code \in Codes, assign \in Assignments :
        LET r == Tracker_add_assignment(tracker, code, assign) IN
        /\ calls < MaxCalls
        /\ calls' = calls + 1
        /\ tracker' = r.tracker
        /\ trackerLast' = [op |-> "add_assignment", code |-> Some(code),
                           assign |-> Some(assign), id |-> None,
                           result |-> r.result, returned |-> None,
                           before |-> get_class(tracker, code)]

TrackerRemoveAssignment ==
    \E id \in Ids :
        LET r == Tracker_remove_assignment(tracker, id) IN
        /\ calls < MaxCalls
        /\ calls' = calls + 1
        /\ tracker' = r.tracker
        /\ trackerLast' = [op |-> "remove_assignment", code |-> None, assign |-> None,
                           id |-> Some(id), result |-> r.result,
                           returned |-> r.returned, before |-> None]

\* values handed to set_value: two in range, one above it
SetValueInputs == {60, 100, 101}

\* Assignmentlike::set_value on an assignment of the tracker
Assignment_set_value(a, value) ==
    IF ~(0 <= value /\ value <= 100)
    THEN [assignment |-> a, result |-> "Value"]
    ELSE [assignment |-> [a EXCEPT !.value = Some(value)], result |-> "Ok"]

\* get_assignment_mut(id) followed by set_value(value) on the reference it
\* gives; with no such assignment there is nothing to call set_value on
Tracker_set_value(t, id, value) ==
    LET i == PositionOfId(t.assignments, id) IN
    IF i = 0 THEN [tracker |-> t, result |-> "None"]
    ELSE LET r == Assignment_set_value(t.assignments[i], value) IN
         [tracker |-> [t EXCEPT !.assignments[i] = r.assignment],
          result |-> r.result]

TrackerSetValue ==
    \E id \in Ids, value \in SetValueInputs :
        LET r == Tracker_set_value(tracker, id, value) IN
        /\ calls < MaxCalls
        /\ calls' = calls + 1
        /\ tracker' = r.tracker
        /\ trackerLast' = [op |-> "set_value", code |-> None, assign |-> None,
                           id |-> Some(id), result |-> r.result,
                           returned |-> Some(value), before |-> None]

\* ================================================ assignment/mark.rs : Mark
\* A Mark is Percent(f64), Letter(char) or OutOf(u32, u32).  A percentage is
\* modelled as a whole number, a char as its code point, a u32 as a natural.
Percent(pct) == [kind |-> "Percent", a |-> pct, b |-> 0]
Letter(c) == [kind |-> "Letter", a |-> c, b |-> 0]
OutOf(a, b) == [kind |-> "OutOf", a |-> a, b |-> b]

\* values handed to the constructors: both sides of every range boundary,
\* and the largest natural the checker represents for the unsigned fields
PercentInputs == (0 - 3)..103
LetterInputs == 60..100
OutOfInputs == {0, 1, 2, 2147483646, 2147483647}

RawMarks ==
    {Percent(v) : v \in PercentInputs} \cup {Letter(c) : c \in LetterInputs}
        \cup {OutOf(x, y) : x \in OutOfInputs, y \in OutOfInputs}

\* (0.0..=100.0).contains(pct)
InPercentRange(pct) == 0 <= pct /\ pct <= 100

\* ('A'..='Z').contains(c): code points 65 to 90
InLetterRange(c) == 65 <= c /\ c <= 90

MarkOk(m) == [result |-> "Ok", mark |-> Some(m), payload |-> <<>>]
MarkErr(kind, payload) == [result |-> kind, mark |-> None, payload |-> payload]

\* mutant: the match arm of OutOf rejects equal values too
Mark_check_valid_Strict(m) ==
    IF m.kind = "Percent" /\ ~InPercentRange(m.a)
    THEN MarkErr("PercentOutOfRange", <<m.a>>)
    ELSE IF m.kind = "Letter" /\ ~InLetterRange(m.a)
    THEN MarkErr("LetterOutOfRange", <<m.a>>)
    ELSE IF m.kind = "OutOf" /\ m.a >= m.b
    THEN MarkErr("OutOfTupleEquality", <<m.a, m.b>>)
    ELSE MarkOk(m)

\* Mark::check_valid
Mark_check_valid(m) ==
    IF m.kind = "Percent" /\ ~InPercentRange(m.a)
    THEN MarkErr("PercentOutOfRange", <<m.a>>)
    ELSE IF m.kind = "Letter" /\ ~InLetterRange(m.a)
    THEN MarkErr("LetterOutOfRange", <<m.a>>)
    ELSE IF m.kind = "OutOf" /\ m.a > m.b
    THEN MarkErr("OutOfTupleEquality", <<m.a, m.b>>)
    ELSE MarkOk(m)

\* mutant: the lower end of the range is excluded
Mark_percent_Positive(pct) ==
    IF ~(0 < pct /\ pct <= 100)
    THEN MarkErr("PercentOutOfRange", <<pct>>)
    ELSE MarkOk(Percent(pct))

\* Mark::percent
Mark_percent(pct) ==
    IF ~InPercentRange(pct)
    THEN MarkErr("PercentOutOfRange", <<pct>>)
    ELSE MarkOk(Percent(pct))

\* Mark::letter
Mark_letter(c) ==
    IF ~InLetterRange(c)
    THEN MarkErr("LetterOutOfRange", <<c>>)
    ELSE MarkOk(Letter(c))

\* Mark::out_of
Mark_out_of(a, b) ==
    IF a > b
    THEN MarkErr("OutOfTupleEquality", <<a, b>>)
    ELSE MarkOk(OutOf(a, b))

\* markLast: the last call made on Mark, its arguments and its Result
NoMarkCall == [op |-> "none", args |-> <<>>, result |-> "Ok", mark |-> None,
               payload |-> <<>>]

MarkInit == markLast = NoMarkCall

MarkCall(op, args, r) ==
    markLast' = [op |-> op, args |-> args, result |-> r.result, mark |-> r.mark,
                 payload |-> r.payload]

MarkPercent == \E pct \in PercentInputs : MarkCall("percent", <<pct>>, Mark_percent(pct))

MarkLetter == \E c \in LetterInputs : MarkCall("letter", <<c>>, Mark_letter(c))

MarkOutOf ==
    \E x \in OutOfInputs, y \in OutOfInputs :
        MarkCall("out_of", <<x, y>>, Mark_out_of(x, y))

MarkCheckValid == \E m \in RawMarks : MarkCall("check_valid", <<m>>, Mark_check_valid(m))

\* ================================================== assignment.rs : Assignment
Statuses == {"Incomplete", "Complete", "Marked"}

\* marks handed to set_mark and with_mark, valid and invalid ones of each kind
MarkInputs ==
    {Percent(0 - 1), Percent(0), Percent(55), Percent(100), Percent(101),
     Letter(64), Letter(65), Letter(77), Letter(90), Letter(91),
     OutOf(0, 0), OutOf(1, 2), OutOf(2, 1), OutOf(0, 2147483647)}

\* Assignment::new: no value, no mark, Status::default()
Assignment_new == [mark |-> None, status |-> "Incomplete"]

\* mutant: the status is stored whatever the mark is
Assignment_set_status_Unchecked(a, status) ==
    [assignment |-> [a EXCEPT !.status = status], result |-> "Ok"]

\* Assignmentlike::set_status
Assignment_set_status(a, status) ==
    IF a.mark # None /\ status # "Marked"
    THEN [assignment |-> a, result |-> "NotMarked"]
    ELSE IF a.mark = None /\ status = "Marked"
    THEN [assignment |-> a, result |-> "Marked"]
    ELSE [assignment |-> [a EXCEPT !.status = status], result |-> "Ok"]

\* mutant: the mark is stored and the status is left as it was
Assignment_set_mark_KeepStatus(a, mark) ==
    IF Mark_check_valid(mark).result # "Ok"
    THEN [assignment |-> a, result |-> "Mark"]
    ELSE [assignment |-> [a EXCEPT !.mark = Some(mark)], result |-> "Ok"]

\* mutant: the mark is stored before it is checked
Assignment_set_mark_StoreFirst(a, mark) ==
    LET stored == [a EXCEPT !.mark = Some(mark)] IN
    IF Mark_check_valid(mark).result # "Ok"
    THEN [assignment |-> stored, result |-> "Mark"]
    ELSE Assignment_set_status(stored, "Marked")

\* Assignmentlike::set_mark
Assignment_set_mark(a, mark) ==
    IF Mark_check_valid(mark).result # "Ok"
    THEN [assignment |-> a, result |-> "Mark"]
    ELSE Assignment_set_status([a EXCEPT !.mark = Some(mark)], "Marked")

\* Assignmentlike::remove_mark: the Result of set_status is expect()ed
Assignment_remove_mark(a) ==
    LET r == Assignment_set_status([a EXCEPT !.mark = None], "Incomplete") IN
    [assignment |-> r.assignment,
     result |-> IF r.result = "Ok" THEN "Ok" ELSE "panic"]

\* Assignment::with_mark consumes self: set_mark(mark)?, set_status(Marked)?
Assignment_with_mark(a, mark) ==
    LET r == Assignment_set_mark(a, mark) IN
    IF r.result # "Ok"
    THEN [assignment |-> None, result |-> r.result]
    ELSE LET q == Assignment_set_status(r.assignment, "Marked") IN
         IF q.result # "Ok"
         THEN [assignment |-> None, result |-> q.result]
         ELSE [assignment |-> Some(q.assignment), result |-> "Ok"]

\* Assignment::with_status consumes self: set_status(status)?
Assignment_with_status(a, status) ==
    LET r == Assignment_set_status(a, status) IN
    IF r.result # "Ok"
    THEN [assignment |-> None, result |-> r.result]
    ELSE [assignment |-> Some(r.assignment), result |-> "Ok"]

\* assignment: the live Assignment, None once a builder has consumed it and
\* returned Err.  assignmentLast: the last call, its argument and its Result.
NoAssignmentCall == [op |-> "new", mark |-> None, status |-> None, result |-> "Ok"]

AssignmentInit ==
    /\ assignment = Some(Assignment_new)
    /\ assignmentLast = NoAssignmentCall

AssignmentNew ==
    /\ assignment' = Some(Assignment_new)
    /\ assignmentLast' = NoAssignmentCall

AssignmentSetMark ==
    /\ assignment # None
    /\ \E mark \in MarkInputs :
        LET r == Assignment_set_mark(assignment[1], mark) IN
        /\ assignment' = Some(r.assignment)
        /\ assignmentLast' = [op |-> "set_mark", mark |-> Some(mark),
                              status |-> None, result |-> r.result]

AssignmentRemoveMark ==
    /\ assignment # None
    /\ LET r == Assignment_remove_mark(assignment[1]) IN
        /\ assignment' = Some(r.assignment)
        /\ assignmentLast' = [op |-> "remove_mark", mark |-> None,
                              status |-> None, result |-> r.result]

AssignmentSetStatus ==
    /\ assignment # None
    /\ \E status \in Statuses :
        LET r == Assignment_set_status(assignment[1], status) IN
        /\ assignment' = Some(r.assignment)
        /\ assignmentLast' = [op |-> "set_status", mark |-> None,
                              status |-> Some(status), result |-> r.result]

AssignmentWithMark ==
    /\ assignment # None
    /\ \E mark \in MarkInputs :
        LET r == Assignment_with_mark(assignment[1], mark) IN
        /\ assignment' = r.assignment
        /\ assignmentLast' = [op |-> "with_mark", mark |-> Some(mark),
                              status |-> None, result |-> r.result]

AssignmentWithStatus ==
    /\ assignment # None
    /\ \E status \in Statuses :
        LET r == Assignment_with_status(assignment[1], status) IN
        /\ assignment' = r.assignment
        /\ assignmentLast' = [op |-> "with_status", mark |-> None,
                              status |-> Some(status), result |-> r.result]

\* ============================================ core/assignments.rs : Assignments
\* An Assignment of the core crate as the collection reads it: its name and its
\* weight, None or Some(w) with w <= 100 (Assignment::set_weight).
CoreNames == {"Assignment 1", "Assignment 2", "Assignment 3"}
CoreWeights == {None, Some(0), Some(40), Some(60), Some(100)}
CoreAssignments == [name : CoreNames, weight : CoreWeights]

MAX_SUM_WEIGHT == 100

\* self.inner.iter().filter_map(|a| a.weight()).sum::<u32>()
RECURSIVE SumWeights(_)
SumWeights(q) ==
    IF q = <<>> THEN 0
    ELSE (IF Head(q).weight = None THEN 0 ELSE Head(q).weight[1]) + SumWeights(Tail(q))

\* Assignments::can_add_assignment: the sum is taken over the collection as it
\* is, the weight of the assignment to add is not part of it
can_add_assignment(q, a) ==
    IF \E i \in 1..Len(q) : q[i].name = a.name
    THEN "NonUniqueName"
    ELSE IF SumWeights(q) > MAX_SUM_WEIGHT
    THEN "WeightsOutOfBounds"
    ELSE "Ok"

\* Assignments::push_back
Assignments_push_back(q, a) ==
    LET r == can_add_assignment(q, a) IN
    IF r # "Ok" THEN [inner |-> q, result |-> r]
    ELSE [inner |-> Append(q, a), result |-> "Ok"]

\* Assignments::push_front
Assignments_push_front(q, a) ==
    LET r == can_add_assignment(q, a) IN
    IF r # "Ok" THEN [inner |-> q, result |-> r]
    ELSE [inner |-> <<a>> \o q, result |-> "Ok"]

\* innerLast: the last call on the collection, its argument and its Result
NoInnerCall == [op |-> "new", assignment |-> None, result |-> "Ok"]

\* Assignments::new
AssignmentsInit ==
    /\ inner = <<>>
    /\ innerLast = NoInnerCall

AssignmentsPushBack ==
    \E a \in CoreAssignments :
        LET r == Assignments_push_back(inner, a) IN
        /\ inner' = r.inner
        /\ innerLast' = [op |-> "push_back", assignment |-> Some(a),
                         result |-> r.result]

AssignmentsPushFront ==
    \E a \in CoreAssignments :
        LET r == Assignments_push_front(inner, a) IN
        /\ inner' = r.inner
        /\ innerLast' = [op |-> "push_front", assignment |-> Some(a),
                         result |-> r.result]

\* ============================================ tracker/lib/tracker.rs : Tracker
\* The prototype Tracker keeps a Vec of Assignments that carry their class
\* code.  Assignment::new has validated the name and the value (0..=100) and
\* set no mark, so an Assignment is its name, its value and its class code, and
\* the derived PartialEq compares the three.
TrackNames == {"Assignment 1", "Assignment 2"}
TrackValues == {40, 60}
ClassCodes == {"SOME101", "OTHR456"}
TrackAssignments == [name : TrackNames, value : TrackValues, class_code : ClassCodes]
TrackLists == {<<>>} \cup {<<a>> : a \in TrackAssignments}
                  \cup {<<a, b>> : a \in TrackAssignments, b \in TrackAssignments}

\* Tracker::get_all_from_class
get_all_from_class(l, code) == SelectSeq(l, LAMBDA a : a.class_code = code)

RECURSIVE SumTrackValues(_)
SumTrackValues(l) ==
    IF l = <<>> THEN 0 ELSE Head(l).value + SumTrackValues(Tail(l))

\* mutant: the value of the assignment to track is left out of the total
Tracker_track_NoValue(l, assign) ==
    IF \E i \in 1..Len(l) : assign = l[i]
    THEN [list |-> l, result |-> "Duplicate"]
    ELSE IF SumTrackValues(get_all_from_class(l, assign.class_code)) > 100
    THEN [list |-> l, result |-> "TotalValue"]
    ELSE [list |-> Append(l, assign), result |-> "Ok"]

\* Tracker::track
Tracker_track(l, assign) ==
    IF \E i \in 1..Len(l) : assign = l[i]
    THEN [list |-> l, result |-> "Duplicate"]
    ELSE IF SumTrackValues(get_all_from_class(l, assign.class_code)) + assign.value > 100
    THEN [list |-> l, result |-> "TotalValue"]
    ELSE [list |-> Append(l, assign), result |-> "Ok"]

\* Tracker::track_many: track(a)? for each element in turn
RECURSIVE Tracker_track_many(_, _)
Tracker_track_many(l, ass) ==
    IF ass = <<>> THEN [list |-> l, result |-> "Ok"]
    ELSE LET r == Tracker_track(l, Head(ass)) IN
         IF r.result # "Ok" THEN r
         ELSE Tracker_track_many(r.list, Tail(ass))

\* self.list.iter().position(|r| r == x), as a set of at most one index
PositionOf(l, x) ==
    {i \in 1..Len(l) : l[i] = x /\ \A j \in 1..(i - 1) : l[j] # x}

\* mutant: every assignment of that name is removed, whatever its class
Tracker_untrack_AnyClass(l, name, code) ==
    LET filtered == SelectSeq(l, LAMBDA a : a.name = name /\ a.class_code = code) IN
    IF Len(filtered) = 0 THEN [list |-> l, result |-> "NotFound"]
    ELSE IF Len(filtered) > 1 THEN [list |-> l, result |-> "panic"]
    ELSE [list |-> SelectSeq(l, LAMBDA a : a.name # name), result |-> "Ok"]

\* Tracker::untrack
Tracker_untrack(l, name, code) ==
    LET filtered == SelectSeq(l, LAMBDA a : a.name = name /\ a.class_code = code) IN
    IF Len(filtered) = 0 THEN [list |-> l, result |-> "NotFound"]
    ELSE IF Len(filtered) > 1 THEN [list |-> l, result |-> "panic"]
    ELSE LET pos == PositionOf(l, filtered[1]) IN
         IF pos # {}
         THEN [list |-> RemoveAt(l, CHOOSE i \in pos : TRUE), result |-> "Ok"]
         ELSE [list |-> l, result |-> "panic"]

\* listLast: the last call on the prototype Tracker, its arguments, its Result
NoListCall == [op |-> "new", assign |-> None, name |-> None, class |-> None,
               result |-> "Ok"]

\* Tracker::new
ListInit ==
    /\ list = <<>>
    /\ listLast = NoListCall

TrackerTrack ==
    \E assign \in TrackAssignments :
        LET r == Tracker_track(list, assign) IN
        /\ list' = r.list
        /\ listLast' = [op |-> "track", assign |-> Some(assign), name |-> None,
                        class |-> None, result |-> r.result]

TrackerTrackMany ==
    \E ass \in TrackLists :
        LET r == Tracker_track_many(list, ass) IN
        /\ list' = r.list
        /\ listLast' = [op |-> "track_many", assign |-> None, name |-> None,
                        class |-> None, result |-> r.result]

TrackerUntrack ==
    \E name \in TrackNames, code \in ClassCodes :
        LET r == Tracker_untrack(list, name, code) IN
        /\ list' = r.list
        /\ listLast' = [op |-> "untrack", assign |-> None, name |-> Some(name),
                        class |-> Some(code), result |-> r.result]

\* ======================================== core/marks : Percent, OutOf, Grade
\* A Percent is its u8 value, an OutOf its two u16 fields, a Grade its letter
\* and its modifier ("None" where the variant has none or carries None).
U8Inputs == 0..110
U16Marks == {0, 1, 7, 15, 33, 50, 53, 59, 99, 100, 150, 200, 300, 32768, 65535}
U16OutOfs == {0, 1, 15, 20, 100, 200, 300, 65535}
Grades ==
    [letter : {"A", "B", "C"}, modifier : {"Plus", "None", "Minus"}]
        \cup [letter : {"D", "E", "F"}, modifier : {"None"}]
PercentLists ==
    LET P == {0, 50, 75, 100} IN
    {<<a>> : a \in P} \cup {<<a, b>> : a \in P, b \in P}
        \cup {<<a, b, c>> : a \in P, b \in P, c \in P}

\* Percent::new
Percent_new(value) ==
    IF value > 100 THEN [result |-> "OutOfRange", value |-> None]
    ELSE [result |-> "Ok", value |-> Some(value)]

\* Percent::average: the u8 sum of two values of at most 100 does not wrap
Percent_average(self, other) == (self + other) \div 2

\* Percent::average_many: fold(Percent::zero(), Percent::average)
RECURSIVE Fold_average(_, _)
Fold_average(acc, percents) ==
    IF percents = <<>> THEN acc
    ELSE Fold_average(Percent_average(acc, Head(percents)), Tail(percents))

Percent_average_many(percents) == Fold_average(0, percents)

\* OutOf::new
OutOf_new(mark, out_of) ==
    IF mark > out_of THEN "MarkTooLarge" ELSE "Ok"

\* ---- the f32 arithmetic of From<OutOf> for Percent, on exact integers
RECURSIVE Pow2(_)
Pow2(n) == IF n = 0 THEN 1 ELSE 2 * Pow2(n - 1)

\* number of binary digits of x > 0
RECURSIVE BitLen(_)
BitLen(x) == IF x = 0 THEN 0 ELSE 1 + BitLen(x \div 2)

\* x / 2^t rounded to the nearest integer, ties to even
RoundShift(x, t) ==
    LET d == Pow2(t)
        q == x \div d
        r == x % d
    IN  IF 2 * r > d \/ (2 * r = d /\ q % 2 = 1) THEN q + 1 ELSE q

\* least s with mark * 2^s >= out_of, for 0 < mark <= out_of
RECURSIVE Normalise(_, _)
Normalise(mark, out_of) ==
    IF mark >= out_of THEN 0 ELSE 1 + Normalise(2 * mark, out_of)

\* n more quotient bits of r / out_of by long division
RECURSIVE DivBits(_, _, _, _)
DivBits(r, out_of, n, acc) ==
    IF n = 0 THEN [q |-> acc, r |-> r]
    ELSE IF 2 * r >= out_of THEN DivBits(2 * r - out_of, out_of, n - 1, 2 * acc + 1)
    ELSE DivBits(2 * r, out_of, n - 1, 2 * acc)

\* f32::from(mark) / f32::from(out_of) for 0 < mark <= out_of: the quotient
\* rounded to 24 significant bits, as mantissa m and shift s (value m / 2^(23+s))
F32Div(mark, out_of) ==
    LET s == Normalise(mark, out_of)
        d == DivBits(mark * Pow2(s) - out_of, out_of, 23, 1)
        up == 2 * d.r > out_of \/ (2 * d.r = out_of /\ d.q % 2 = 1)
    IN  [m |-> IF up THEN d.q + 1 ELSE d.q, s |-> s]

\* (x * 100.0) rounded to 24 significant bits, then `as u8`: truncation
F32Times100AsU8(x) ==
    LET prod == x.m * 100
        t == IF BitLen(prod) > 24 THEN BitLen(prod) - 24 ELSE 0
        p == RoundShift(prod, t)
        n == 23 + x.s - t
    IN  IF n >= 30 THEN [int |-> 0, exact |-> FALSE]
        ELSE [int |-> p \div Pow2(n), exact |-> p % Pow2(n) = 0]

\* From<OutOf> for Percent: 0/0 is NaN, which the assert! rejects
Percent_from_OutOf(mark, out_of) ==
    IF out_of = 0 THEN [result |-> "panic", value |-> None]
    ELSE IF mark = 0 THEN Percent_new(0)
    ELSE LET pct == F32Times100AsU8(F32Div(mark, out_of)) IN
         IF pct.int > 100 \/ (pct.int = 100 /\ ~pct.exact)
         THEN [result |-> "panic", value |-> None]
         ELSE Percent_new(pct.int)

\* mutant: the lowest passing grade maps to the percentage of the one below
grade_to_pct_Low(grade) ==
    IF grade.letter = "A" THEN
        (IF grade.modifier = "Plus" THEN 90 ELSE IF grade.modifier = "None" THEN 85 ELSE 80)
    ELSE IF grade.letter = "B" THEN
        (IF grade.modifier = "Plus" THEN 75 ELSE IF grade.modifier = "None" THEN 70 ELSE 65)
    ELSE IF grade.letter = "C" THEN
        (IF grade.modifier = "Plus" THEN 60 ELSE IF grade.modifier = "None" THEN 55 ELSE 49)
    ELSE IF grade.letter = "D" THEN 40
    ELSE IF grade.letter = "E" THEN 20
    ELSE 0

\* grade_to_pct
grade_to_pct(grade) ==
    IF grade.letter = "A" THEN
        (IF grade.modifier = "Plus" THEN 90 ELSE IF grade.modifier = "None" THEN 85 ELSE 80)
    ELSE IF grade.letter = "B" THEN
        (IF grade.modifier = "Plus" THEN 75 ELSE IF grade.modifier = "None" THEN 70 ELSE 65)
    ELSE IF grade.letter = "C" THEN
        (IF grade.modifier = "Plus" THEN 60 ELSE IF grade.modifier = "None" THEN 55 ELSE 50)
    ELSE IF grade.letter = "D" THEN 40
    ELSE IF grade.letter = "E" THEN 20
    ELSE 0

Unreachable == [letter |-> "unreachable", modifier |-> "None"]

\* pct_to_grade: the arms in their order, the last one is unreachable!()
pct_to_grade(pct) ==
    IF pct \in 90..100 THEN [letter |-> "A", modifier |-> "Plus"]
    ELSE IF pct \in 85..89 THEN [letter |-> "A", modifier |-> "None"]
    ELSE IF pct \in 80..84 THEN [letter |-> "A", modifier |-> "Minus"]
    ELSE IF pct \in 75..79 THEN [letter |-> "B", modifier |-> "Plus"]
    ELSE IF pct \in 70..74 THEN [letter |-> "B", modifier |-> "None"]
    ELSE IF pct \in 65..69 THEN [letter |-> "B", modifier |-> "Minus"]
    ELSE IF pct \in 60..64 THEN [letter |-> "C", modifier |-> "Plus"]
    ELSE IF pct \in 55..59 THEN [letter |-> "C", modifier |-> "None"]
    ELSE IF pct \in 50..54 THEN [letter |-> "C", modifier |-> "Minus"]
    ELSE IF pct \in 40..49 THEN [letter |-> "D", modifier |-> "None"]
    ELSE IF pct \in 1..39 THEN [letter |-> "E", modifier |-> "None"]
    ELSE IF pct = 0 THEN [letter |-> "F", modifier |-> "None"]
    ELSE Unreachable

\* From<Grade> for Percent: Percent::new(grade_to_pct(grade)).expect(..)
Percent_from_Grade(grade) ==
    LET r == Percent_new(grade_to_pct(grade)) IN
    IF r.result = "Ok" THEN r ELSE [result |-> "panic", value |-> None]

\* From<Percent> for Grade
Grade_from_Percent(value) == pct_to_grade(value)

\* convLast: the last conversion or computation, its input and what it gave
NoConv == [op |-> "none", input |-> <<>>, result |-> "Ok", value |-> None,
           grade |-> None]

ConvInit == convLast = NoConv

PercentAverageMany ==
    \E percents \in PercentLists :
        convLast' = [op |-> "average_many", input |-> percents, result |-> "Ok",
                     value |-> Some(Percent_average_many(percents)), grade |-> None]

PercentFromOutOf ==
    \E mark \in U16Marks, out_of \in U16OutOfs :
        /\ OutOf_new(mark, out_of) = "Ok"
        /\ LET r == Percent_from_OutOf(mark, out_of) IN
           convLast' = [op |-> "from_out_of", input |-> <<mark, out_of>>,
                        result |-> r.result, value |-> r.value, grade |-> None]

\* Grade::from(p) for a Percent p built by Percent::new
GradeFromPercent ==
    \E value \in U8Inputs :
        /\ Percent_new(value).result = "Ok"
        /\ convLast' = [op |-> "grade_from_percent", input |-> <<value>>,
                        result |-> "Ok", value |-> None,
                        grade |-> Some(Grade_from_Percent(value))]

\* Grade::from(Percent::from(g))
GradeRoundTrip ==
    \E g \in Grades :
        LET r == Percent_from_Grade(g) IN
        convLast' = [op |-> "round_trip", input |-> <<g>>, result |-> r.result,
                     value |-> r.value,
                     grade |-> IF r.result = "Ok"
                               THEN Some(Grade_from_Percent(r.value[1])) ELSE None]

\* ======================================================== specifications
InitAll ==
    /\ ClassInit /\ TrackerInit /\ MarkInit /\ AssignmentInit
    /\ AssignmentsInit /\ ListInit /\ ConvInit

\* the variables each specification leaves alone
idleClass == <<trackerVars, markVars, assignmentVars, innerVars, listVars, convVars>>
idleTracker == <<classVars, markVars, assignmentVars, innerVars, listVars, convVars>>
idleAssignment == <<classVars, trackerVars, markVars, innerVars, listVars, convVars>>
idleMark == <<classVars, trackerVars, assignmentVars, innerVars, listVars, convVars>>
idleInner == <<classVars, trackerVars, markVars, assignmentVars, listVars, convVars>>
idleList == <<classVars, trackerVars, markVars, assignmentVars, innerVars, convVars>>
idleConv == <<classVars, trackerVars, markVars, assignmentVars, innerVars, listVars>>

\* one Class driven by add_assignment only
InitClassAdd == InitAll
NextClassAdd == ClassAddAssignment /\ UNCHANGED idleClass
SpecClassAdd == InitClassAdd /\ [][NextClassAdd]_vars

\* one Class driven by add_assignment and remove_assignment
InitClass == InitAll
NextClass ==
    \/ ClassAddAssignment /\ UNCHANGED idleClass
    \/ ClassRemoveAssignment /\ UNCHANGED idleClass
SpecClass == InitClass /\ [][NextClass]_vars

\* Class::new together with the two operations of the Class it returns
InitClassNew == InitAll
NextClassNew ==
    \/ ClassNew /\ UNCHANGED idleClass
    \/ ClassAddAssignment /\ UNCHANGED idleClass
    \/ ClassRemoveAssignment /\ UNCHANGED idleClass
SpecClassNew == InitClassNew /\ [][NextClassNew]_vars

\* one Tracker driven by its four mutating operations
InitTracker == InitAll
NextTracker ==
    \/ TrackerAddClass /\ UNCHANGED idleTracker
    \/ TrackerRemoveClass /\ UNCHANGED idleTracker
    \/ TrackerAddAssignment /\ UNCHANGED idleTracker
    \/ TrackerRemoveAssignment /\ UNCHANGED idleTracker
SpecTracker == InitTracker /\ [][NextTracker]_vars

\* one Tracker whose assignments are also edited in place through
\* get_assignment_mut
InitTrackerEdit == InitAll
NextTrackerEdit ==
    \/ TrackerAddClass /\ UNCHANGED idleTracker
    \/ TrackerRemoveClass /\ UNCHANGED idleTracker
    \/ TrackerAddAssignment /\ UNCHANGED idleTracker
    \/ TrackerRemoveAssignment /\ UNCHANGED idleTracker
    \/ TrackerSetValue /\ UNCHANGED idleTracker
SpecTrackerEdit == InitTrackerEdit /\ [][NextTrackerEdit]_vars

\* one Assignment driven by its mark and status operations and builders
InitAssignment == InitAll
NextAssignment ==
    \/ AssignmentNew /\ UNCHANGED idleAssignment
    \/ AssignmentSetMark /\ UNCHANGED idleAssignment
    \/ AssignmentRemoveMark /\ UNCHANGED idleAssignment
    \/ AssignmentSetStatus /\ UNCHANGED idleAssignment
    \/ AssignmentWithMark /\ UNCHANGED idleAssignment
    \/ AssignmentWithStatus /\ UNCHANGED idleAssignment
SpecAssignment == InitAssignment /\ [][NextAssignment]_vars

\* the constructors of Mark and check_valid applied to bounded inputs
InitMark == InitAll
NextMark ==
    \/ MarkPercent /\ UNCHANGED idleMark
    \/ MarkLetter /\ UNCHANGED idleMark
    \/ MarkOutOf /\ UNCHANGED idleMark
    \/ MarkCheckValid /\ UNCHANGED idleMark
SpecMark == InitMark /\ [][NextMark]_vars

\* one Assignments collection driven by its two push operations
InitAssignments == InitAll
NextAssignments ==
    \/ AssignmentsPushBack /\ UNCHANGED idleInner
    \/ AssignmentsPushFront /\ UNCHANGED idleInner
SpecAssignments == InitAssignments /\ [][NextAssignments]_vars

\* one prototype Tracker driven by track, track_many and untrack
InitList == InitAll
NextList ==
    \/ TrackerTrack /\ UNCHANGED idleList
    \/ TrackerTrackMany /\ UNCHANGED idleList
    \/ TrackerUntrack /\ UNCHANGED idleList
SpecList == InitList /\ [][NextList]_vars

\* the computations and conversions of Percent, OutOf and Grade applied to
\* bounded inputs
InitConv == InitAll
NextConv ==
    \/ PercentAverageMany /\ UNCHANGED idleConv
    \/ PercentFromOutOf /\ UNCHANGED idleConv
    \/ GradeFromPercent /\ UNCHANGED idleConv
    \/ GradeRoundTrip /\ UNCHANGED idleConv
SpecConv == InitConv /\ [][NextConv]_vars

\* ================================================================ claims
\* the total value of the class with that code, as get_class(code) reports it
TotalOf(t, code) == get_class(t, code)[1].total_value

\* C1: for any sequence of Class::add_assignment calls, total_value() equals
\* the sum of the weights of the assignments in the class, and that sum never
\* exceeds 100.
C1_WeightSum ==
    /\ Class_total_value(class) = SumValues(class.assignments)
    /\ SumValues(class.assignments) <= 100

C1_Witness ==
    /\ classLast.op = "add_assignment"
    /\ classLast.result = "Ok"
    /\ Cardinality(DOMAIN class.assignments) = 2
    /\ Class_total_value(class) = 100

\* C2: in every Tracker state no two classes share a code, no two
\* assignments share an id, and no two assignments indexed to the same class
\* share a name.
C2_Uniqueness ==
    /\ \A i, j \in 1..Len(tracker.classes) :
           i # j => tracker.classes[i].code # tracker.classes[j].code
    /\ \A i, j \in 1..Len(tracker.assignments) :
           i # j => tracker.assignments[i].id # tracker.assignments[j].id
    /\ \A i, j \in 1..Len(tracker.assignments) :
           LET a == tracker.assignments[i]
               b == tracker.assignments[j] IN
           (/\ i # j
            /\ a.id \in DOMAIN tracker.map
            /\ b.id \in DOMAIN tracker.map
            /\ tracker.map[a.id] = tracker.map[b.id]) => a.name # b.name

\* two classes, each holding an assignment, both assignments of the same name
C2_Witness ==
    /\ trackerLast.op = "add_assignment"
    /\ trackerLast.result = "Ok"
    /\ Len(tracker.classes) = 2
    /\ Len(tracker.assignments) = 2
    /\ DOMAIN tracker.map = {tracker.assignments[1].id, tracker.assignments[2].id}
    /\ tracker.map[tracker.assignments[1].id] # tracker.map[tracker.assignments[2].id]
    /\ tracker.assignments[1].name = tracker.assignments[2].name

\* C3: whenever a Tracker operation returns an error, the classes (with their
\* running totals), the assignment list and the index are exactly as before
\* the call.
C3_AtomicOnFailure ==
    [][trackerLast'.result # "Ok" => tracker' = tracker]_vars

\* the class-level weight check has just rejected an add
C3_Witness ==
    /\ trackerLast.op = "add_assignment"
    /\ trackerLast.result = "TotalValue"

\* C4: after remove_class(code) succeeds, every assignment id that was indexed
\* to that class has no index entry and get_assignment(id) returns None.
C4_RemoveClassCascades ==
    [][(trackerLast'.op = "remove_class" /\ trackerLast'.result = "Ok") =>
          \A id \in DOMAIN tracker.map :
              tracker.map[id] = trackerLast'.code[1] =>
                  /\ id \notin DOMAIN tracker'.map
                  /\ get_assignment(tracker', id) = None]_vars

\* C5: add_assignment(c, a) succeeded and remove_assignment(a.id()) follows:
\* it returns an assignment equal to a and the running total of class c is
\* back to its value before the add.
C5_RemoveInvertsAdd ==
    [][(/\ trackerLast.op = "add_assignment"
        /\ trackerLast.result = "Ok"
        /\ trackerLast'.op = "remove_assignment"
        /\ trackerLast'.id = Some(trackerLast.assign[1].id)) =>
          /\ trackerLast'.result = "Ok"
          /\ trackerLast'.returned = trackerLast.assign
          /\ TotalOf(tracker', trackerLast.code[1]) =
                 trackerLast.before[1].total_value]_vars

\* C6: Class::remove_assignment(id) on an id present in the class removes
\* exactly that assignment, returns it, and decreases total_value by its weight.
C6_ClassRemoveDecreasesTotal ==
    [][(/\ classLast'.op = "remove_assignment"
        /\ classLast'.id[1] \in DOMAIN class.assignments) =>
          LET id == classLast'.id[1] IN
          /\ classLast'.result = "Ok"
          /\ classLast'.returned = Some(class.assignments[id])
          /\ DOMAIN class'.assignments = DOMAIN class.assignments \ {id}
          /\ \A j \in DOMAIN class'.assignments :
                 class'.assignments[j] = class.assignments[j]
          /\ Class_total_value(class') =
                 Class_total_value(class) - class.assignments[id].value]_vars

\* C7: a Class::add_assignment that is rejected (total over 100, id present,
\* name present) leaves the assignment set and total_value() as they were.
C7_ClassAddAtomic ==
    [][(classLast'.op = "add_assignment" /\ classLast'.result # "Ok") =>
          class' = class]_vars

\* an add rejected by an identity check although its weight fits
C7_Witness ==
    /\ classLast.op = "add_assignment"
    /\ classLast.result \in {"IdExists", "NameExists"}
    /\ classLast.assign[1].value > 0
    /\ Class_total_value(class) + classLast.assign[1].value <= 100

\* C8: Class::add_assignment checks the total-value bound first, then id
\* uniqueness, then name uniqueness.
C8_ClassCheckOrder ==
    [][classLast'.op = "add_assignment" =>
          LET a == classLast'.assign[1]
              over == Class_total_value(class) + a.value > 100
              dupId == a.id \in DOMAIN class.assignments
              dupName == \E j \in DOMAIN class.assignments :
                             class.assignments[j].name = a.name IN
          classLast'.result =
              IF over THEN "TotalValue"
              ELSE IF dupId THEN "IdExists"
              ELSE IF dupName THEN "NameExists"
              ELSE "Ok"]_vars

\* an add that is over the bound and also repeats an id and a name: rejected
\* for the total
C8_Witness ==
    /\ classLast.op = "add_assignment"
    /\ classLast.result = "TotalValue"
    /\ classLast.assign[1].id \in DOMAIN class.assignments
    /\ class.assignments[classLast.assign[1].id].name = classLast.assign[1].name

\* C9: Tracker::add_assignment checks global id uniqueness first, then the
\* name within the class, then that the class exists, then the class total.
C9_TrackerCheckOrder ==
    [][trackerLast'.op = "add_assignment" =>
          LET a == trackerLast'.assign[1]
              code == trackerLast'.code[1]
              dupId == \E i \in 1..Len(tracker.assignments) :
                           tracker.assignments[i].id = a.id
              dupName == \E i \in 1..Len(tracker.assignments) :
                           LET b == tracker.assignments[i] IN
                           /\ b.name = a.name
                           /\ b.id \in DOMAIN tracker.map
                           /\ tracker.map[b.id] = code
              noClass == get_class(tracker, code) = None
              over == TotalOf(tracker, code) + unwrap_or(a.value, 0) > 100 IN
          trackerLast'.result =
              IF dupId THEN "AssignmentIdTaken"
              ELSE IF dupName THEN "AssignmentNameNotUnique"
              ELSE IF noClass THEN "ClassCodeNone"
              ELSE IF over THEN "TotalValue"
              ELSE "Ok"]_vars

\* a repeated id given with an unknown class code: rejected for the id
C9_Witness ==
    /\ trackerLast.op = "add_assignment"
    /\ trackerLast.result = "AssignmentIdTaken"
    /\ get_class(tracker, trackerLast.code[1]) = None

\* C10: remove_class(code) for a code no class uses fails with the not-found
\* error, which is not the duplicate-code error of add_class, and leaves the
\* tracker unchanged.
C10_RemoveUnknownClass ==
    [][(/\ trackerLast'.op = "remove_class"
        /\ get_class(tracker, trackerLast'.code[1]) = None) =>
          /\ trackerLast'.result = "ClassCodeNone"
          /\ trackerLast'.result # "ClassCodeTaken"
          /\ tracker' = tracker]_vars

\* the sum of the values of the assignments the index maps to code, an
\* assignment with no value counting as 0
RECURSIVE SumSeq(_)
SumSeq(s) == IF s = <<>> THEN 0 ELSE unwrap_or(Head(s).value, 0) + SumSeq(Tail(s))

IndexedSum(t, code) == SumSeq(assignments_from_class(t, code))

\* C11: with a fresh id, Tracker::add_assignment fails with the name-taken
\* error exactly when an assignment of that name is indexed to the same
\* class; the same name in another class does not stop the add.
C11_NameScopedToClass ==
    [][(/\ trackerLast'.op = "add_assignment"
        /\ \A i \in 1..Len(tracker.assignments) :
               tracker.assignments[i].id # trackerLast'.assign[1].id) =>
          LET a == trackerLast'.assign[1]
              code == trackerLast'.code[1]
              inClass == \E i \in 1..Len(tracker.assignments) :
                             LET b == tracker.assignments[i] IN
                             /\ b.name = a.name
                             /\ b.id \in DOMAIN tracker.map
                             /\ tracker.map[b.id] = code IN
          /\ (trackerLast'.result = "AssignmentNameNotUnique") <=> inClass
          /\ (/\ ~inClass
              /\ get_class(tracker, code) # None
              /\ TotalOf(tracker, code) + unwrap_or(a.value, 0) <= 100)
                 => trackerLast'.result = "Ok"]_vars

\* an add accepted although an assignment of another class has the same name
C11_Witness ==
    /\ trackerLast.op = "add_assignment"
    /\ trackerLast.result = "Ok"
    /\ \E i \in 1..Len(tracker.assignments) :
           LET b == tracker.assignments[i] IN
           /\ b.id # trackerLast.assign[1].id
           /\ b.name = trackerLast.assign[1].name
           /\ b.id \in DOMAIN tracker.map
           /\ tracker.map[b.id] # trackerLast.code[1]

\* C12: for every class the sum of the values of the assignments indexed to
\* it is at most 100; an add that brings that sum to exactly 100 is accepted
\* and an add that would bring it above 100 is rejected.
C12_TrackerCeiling ==
    [][/\ \A code \in Codes : IndexedSum(tracker', code) <= 100
       /\ (/\ trackerLast'.op = "add_assignment"
           /\ trackerLast'.result \notin {"AssignmentIdTaken",
                                          "AssignmentNameNotUnique",
                                          "ClassCodeNone"}) =>
             LET sum == IndexedSum(tracker, trackerLast'.code[1])
                          + unwrap_or(trackerLast'.assign[1].value, 0) IN
             /\ sum = 100 => trackerLast'.result = "Ok"
             /\ sum > 100 => trackerLast'.result # "Ok"]_vars


\* C13: an Assignment built by Assignment::new and driven by any sequence of
\* set_mark, remove_mark, set_status, with_mark and with_status calls, failing
\* or not, has status Marked if and only if it has a mark.
C13_MarkStatusCoupling ==
    assignment # None =>
        ((assignment[1].status = "Marked") <=> (assignment[1].mark # None))

C13_Witness ==
    /\ assignment # None
    /\ assignment[1].mark # None
    /\ assignment[1].status = "Marked"
    /\ assignmentLast.op = "set_mark"
    /\ assignmentLast.result = "Mark"

\* C14: set_mark(m) succeeds exactly when Mark::check_valid(m) is Ok; on success
\* the mark is Some(m) and the status Marked; on failure it returns the mark
\* error and leaves mark and status as they were.
C14_SetMark ==
    [][assignmentLast'.op = "set_mark" =>
        LET m == assignmentLast'.mark[1]
            valid == Mark_check_valid(m).result = "Ok"
        IN  /\ (assignmentLast'.result = "Ok") <=> valid
            /\ valid => /\ assignment'[1].mark = Some(m)
                        /\ assignment'[1].status = "Marked"
            /\ ~valid => /\ assignmentLast'.result = "Mark"
                         /\ assignment' = assignment]_vars

C14_Witness ==
    /\ assignmentLast.op = "set_mark"
    /\ assignmentLast.result = "Ok"
    /\ assignmentLast.mark = Some(OutOf(0, 0))
    /\ assignment = Some([mark |-> Some(OutOf(0, 0)), status |-> "Marked"])

\* C15: remove_mark never fails or panics, clears the mark, and changes the
\* status only when it was Marked (to Incomplete); a Complete assignment
\* without a mark stays Complete.
C15_RemoveMarkKeepsStatus ==
    [][assignmentLast'.op = "remove_mark" =>
        /\ assignmentLast'.result = "Ok"
        /\ assignment'[1].mark = None
        /\ assignment'[1].status =
              IF assignment[1].status = "Marked" THEN "Incomplete"
              ELSE assignment[1].status]_vars

\* C16: set_status(s) is rejected exactly when s is not Marked while a mark is
\* set, or s is Marked while no mark is set; a rejected call leaves the status
\* unchanged and an accepted call sets the status to s.
C16_SetStatus ==
    [][assignmentLast'.op = "set_status" =>
        LET s == assignmentLast'.status[1]
            a == assignment[1]
            rejected == \/ s # "Marked" /\ a.mark # None
                        \/ s = "Marked" /\ a.mark = None
        IN  /\ (assignmentLast'.result # "Ok") <=> rejected
            /\ rejected => assignment'[1].status = a.status
            /\ ~rejected => assignment'[1].status = s
            /\ assignment'[1].mark = a.mark]_vars

C16_Witness ==
    /\ assignmentLast.op = "set_status"
    /\ assignmentLast.status = Some("Complete")
    /\ assignmentLast.result = "NotMarked"
    /\ assignment[1].status = "Marked"

\* C17: Mark::percent(v) succeeds iff 0 <= v <= 100, Mark::letter(c) iff c is
\* in 'A'..='Z', Mark::out_of(a, b) iff a <= b, boundaries and extreme values
\* included; a successful call returns the variant carrying its arguments.
C17_MarkRangeLaws ==
    /\ markLast.op = "percent" =>
        LET v == markLast.args[1] IN
        /\ (markLast.result = "Ok") <=> (0 <= v /\ v <= 100)
        /\ markLast.result = "Ok" => markLast.mark = Some(Percent(v))
    /\ markLast.op = "letter" =>
        LET c == markLast.args[1] IN
        /\ (markLast.result = "Ok") <=> (c \in 65..90)
        /\ markLast.result = "Ok" => markLast.mark = Some(Letter(c))
    /\ markLast.op = "out_of" =>
        LET a == markLast.args[1]
            b == markLast.args[2]
        IN  /\ (markLast.result = "Ok") <=> (a <= b)
            /\ markLast.result = "Ok" => markLast.mark = Some(OutOf(a, b))

C17_Witness ==
    /\ markLast.op = "percent"
    /\ markLast.args = <<0>>
    /\ markLast.result = "Ok"
    /\ markLast.mark = Some(Percent(0))

\* the validating constructor of the variant of m applied to the payload of m
MatchingConstructor(m) ==
    IF m.kind = "Percent" THEN Mark_percent(m.a)
    ELSE IF m.kind = "Letter" THEN Mark_letter(m.a)
    ELSE Mark_out_of(m.a, m.b)

\* C18: for every directly constructed Mark, check_valid is Ok iff the matching
\* constructor applied to the same payload succeeds, and when both fail they
\* report the same error variant with the same payload.
C18_CheckValidAgrees ==
    markLast.op = "check_valid" =>
        LET c == MatchingConstructor(markLast.args[1]) IN
        /\ markLast.result = c.result
        /\ markLast.payload = c.payload

C18_Witness ==
    /\ markLast.op = "check_valid"
    /\ markLast.args = <<OutOf(1, 1)>>
    /\ markLast.result = "Ok"

\* C19 as stated: Class::new(id, name) succeeds for every id and every name and
\* returns a class with no assignment and total_value 0.
C19_NewAlwaysSucceeds ==
    [][classLast'.op = "new" =>
        /\ classLast'.result = "Ok"
        /\ class'.assignments = <<>>
        /\ Class_total_value(class') = 0]_vars

\* C19 amended: Class::new(id, name) succeeds exactly when the name is not
\* empty and at most MAX_NAME_LEN bytes long, whatever the id; the class it
\* returns has no assignment and total_value 0.
C19_NewSucceedsOnBoundedName ==
    [][classLast'.op = "new" =>
        LET name == classLast'.code[1] IN
        /\ (classLast'.result = "Ok") <=> (name # "" /\ Len(name) <= MAX_NAME_LEN)
        /\ classLast'.result = "Ok" =>
              /\ classLast'.returned # None
              /\ classLast'.returned[1].assignments = <<>>
              /\ Class_total_value(classLast'.returned[1]) = 0
              /\ class' = classLast'.returned[1]
        /\ classLast'.result # "Ok" => classLast'.returned = None]_vars

C19_Witness ==
    /\ classLast.op = "new"
    /\ classLast.code = Some("LONGER NAME")
    /\ classLast.id = Some(0)
    /\ classLast.result = "Ok"
    /\ class.assignments = <<>>
    /\ Class_total_value(class) = 0


\* C20: assignments_from_class(code) returns exactly the assignments added
\* with success to the class of that code and not since removed, and never an
\* assignment of another class.  It is empty for a new Tracker; a successful
\* add_assignment appends its assignment to the result of its class alone, a
\* successful remove_assignment takes its id out, a successful remove_class
\* empties the result of its class alone, and nothing else changes a result.
C20_AssignmentsFromClass ==
    /\ (calls = 0 => \A c \in Codes : assignments_from_class(tracker, c) = <<>>)
    /\ [][\A c \in Codes :
            LET old == assignments_from_class(tracker, c)
                new == assignments_from_class(tracker', c)
                ok == trackerLast'.result = "Ok"
            IN  IF ok /\ trackerLast'.op = "add_assignment" /\ trackerLast'.code = Some(c)
                THEN new = Append(old, trackerLast'.assign[1])
                ELSE IF ok /\ trackerLast'.op = "remove_assignment"
                THEN new = SelectSeq(old, LAMBDA a : a.id # trackerLast'.id[1])
                ELSE IF ok /\ trackerLast'.op = "remove_class" /\ trackerLast'.code = Some(c)
                THEN new = <<>>
                ELSE new = old]_vars

C20_Witness ==
    /\ \A c \in Codes : Len(assignments_from_class(tracker, c)) = 1
    /\ trackerLast.op = "add_assignment"
    /\ trackerLast.result = "Ok"
    /\ assignments_from_class(tracker, trackerLast.code[1]) = <<trackerLast.assign[1]>>


\* C21 as stated: after push_back and push_front calls the weights of the
\* collection sum to at most 100, and a push that would take the sum above 100
\* is rejected with WeightsOutOfBounds.
C21_CollectionCeiling ==
    [][innerLast'.op \in {"push_back", "push_front"} =>
        LET a == innerLast'.assignment[1]
            w == IF a.weight = None THEN 0 ELSE a.weight[1]
            fresh == \A i \in 1..Len(inner) : inner[i].name # a.name
        IN  /\ SumWeights(inner') <= 100
            /\ (fresh /\ SumWeights(inner) + w > 100) =>
                  innerLast'.result = "WeightsOutOfBounds"]_vars

\* the values of the tracked assignments of one class code, summed
ClassSum(l, code) == SumTrackValues(get_all_from_class(l, code))

\* C22: after any sequence of track, track_many and untrack calls the values
\* of the tracked assignments of every class code sum to at most 100, and
\* track rejects an assignment whose value would take its class above 100.
C22_TrackCeiling ==
    [][/\ \A code \in ClassCodes : ClassSum(list', code) <= 100
       /\ listLast'.op = "track" =>
            LET a == listLast'.assign[1] IN
            ClassSum(list, a.class_code) + a.value > 100 =>
                /\ listLast'.result # "Ok"
                /\ list' = list]_vars

C22_Witness ==
    /\ listLast.op = "track"
    /\ listLast.result = "TotalValue"
    /\ ClassSum(list, listLast.assign[1].class_code) = 100
    /\ \A i \in 1..Len(list) : list[i] # listLast.assign[1]

\* C23 as stated: a track_many that returns an error leaves the list of
\* tracked assignments as it was before the call.
C23_TrackManyAtomic ==
    [][(listLast'.op = "track_many" /\ listLast'.result # "Ok") =>
          list' = list]_vars

\* the tracked assignments of that name and class code
Matching(l, name, code) ==
    SelectSeq(l, LAMBDA a : a.name = name /\ a.class_code = code)

\* C24: untrack(name, class) with no tracked assignment of that name and class
\* returns an error and leaves the list unchanged; with exactly one it removes
\* that assignment and no other, and the list is one shorter.
C24_Untrack ==
    [][listLast'.op = "untrack" =>
        LET name == listLast'.name[1]
            code == listLast'.class[1]
            n == Len(Matching(list, name, code))
        IN  /\ n = 0 => (listLast'.result = "NotFound" /\ list' = list)
            /\ n = 1 =>
                /\ listLast'.result = "Ok"
                /\ Len(list') = Len(list) - 1
                /\ list' = SelectSeq(list,
                       LAMBDA a : ~(a.name = name /\ a.class_code = code))]_vars

C24_Witness ==
    /\ listLast.op = "untrack"
    /\ listLast.result = "Ok"
    /\ Len(list) = 2
    /\ \E i \in 1..Len(list) :
          /\ list[i].name = listLast.name[1]
          /\ list[i].class_code # listLast.class[1]

RECURSIVE SumPercents(_)
SumPercents(percents) ==
    IF percents = <<>> THEN 0 ELSE Head(percents) + SumPercents(Tail(percents))

\* C25 as stated: average_many of a non-empty list is the arithmetic mean of
\* its percentages, truncated to an integer; a list of equal elements p gives p.
C25_AverageMany ==
    convLast.op = "average_many" =>
        convLast.value =
            Some(SumPercents(convLast.input) \div Len(convLast.input))

\* C26 as stated: at most one tracked assignment has any given name and class
\* code, and untrack never panics.
C26_UntrackNeverPanics ==
    /\ listLast.result # "panic"
    /\ \A name \in TrackNames, code \in ClassCodes :
          Len(Matching(list, name, code)) <= 1

\* for every class of the tracker, its indexed values sum to at most 100 and
\* to the running total of the class
CeilingAndTotal(t) ==
    \A code \in Codes :
        /\ IndexedSum(t, code) <= 100
        /\ get_class(t, code) # None => IndexedSum(t, code) = TotalOf(t, code)

\* C27 as stated: set_value applied through get_assignment_mut to an
\* assignment of the tracker keeps, for each class, the sum of the indexed
\* values at most 100 and equal to the class's running total.
C27_CeilingSurvivesEdit ==
    [][(trackerLast'.op = "set_value" /\ CeilingAndTotal(tracker)) =>
          CeilingAndTotal(tracker')]_vars

\* C28: every entry id -> code of the index refers to an id of an assignment
\* of the list and to the code of a class of the tracker; the index, a map,
\* has one entry per id.
C28_IndexSound ==
    \A id \in DOMAIN tracker.map :
        /\ get_assignment(tracker, id) # None
        /\ get_class(tracker, tracker.map[id]) # None
        /\ Cardinality({i \in 1..Len(tracker.assignments) :
                           tracker.assignments[i].id = id}) = 1

C28_Witness ==
    /\ trackerLast.op = "remove_class"
    /\ trackerLast.result = "Ok"
    /\ tracker.map = <<>>
    /\ Len(tracker.assignments) = 1

\* C29 as stated: converting a valid OutOf to Percent never panics and gives
\* the truncated 100 * mark / out_of, at most 100.
C29_PercentFromOutOf ==
    convLast.op = "from_out_of" =>
        LET mark == convLast.input[1]
            out_of == convLast.input[2]
        IN  /\ convLast.result = "Ok"
            /\ convLast.value[1] <= 100
            /\ out_of > 0 => convLast.value[1] = (100 * mark) \div out_of

\* C30: no Percent value 0..=100 reaches the unreachable!() arm of the
\* conversion to Grade, and Grade::from(Percent::from(g)) = g for every Grade.
C30_GradeRoundTrip ==
    /\ convLast.op = "grade_from_percent" => convLast.grade # Some(Unreachable)
    /\ convLast.op = "round_trip" =>
          /\ convLast.result = "Ok"
          /\ convLast.grade = Some(convLast.input[1])

C30_Witness ==
    /\ convLast.op = "round_trip"
    /\ convLast.input = <<[letter |-> "C", modifier |-> "Minus"]>>
    /\ convLast.value = Some(50)
    /\ convLast.grade = Some([letter |-> "C", modifier |-> "Minus"])

====
